---- MODULE Spec2Model ----
(***************************************************************************)
(* go-values-yaml: extraction of the common structure of YAML documents    *)
(* (pkg/yaml/extract.go) and the file-level / recursive drivers            *)
(* (pkg/values/values_file.go).                                            *)
(*                                                                         *)
(* A decoded YAML value (Go `any` as produced by sigs.k8s.io/yaml) is a    *)
(* record of one shape, so that any two values can be compared:            *)
(*   t = "nil" | "scalar" | "list" | "map"                                 *)
(*   s = the scalar, l = the list's elements, m = the map's entries        *)
(*       (a set of [k, v] records with unique keys).                       *)
(***************************************************************************)
EXTENDS Integers, Sequences, FiniteSets, TLC

\* ---------------------------------------------------------------- bounds
NumScalars == 2
MaxListLen == 2
MaxEntries == 2
MaxDocs == 3

\* ---------------------------------------------------------------- values
Nil == [t |-> "nil", s |-> 0, l |-> <<>>, m |-> {}]
Scalar(n) == [t |-> "scalar", s |-> n, l |-> <<>>, m |-> {}]
List(q) == [t |-> "list", s |-> 0, l |-> q, m |-> {}]
Map(es) == [t |-> "map", s |-> 0, l |-> <<>>, m |-> es]
Entry(k, v) == [k |-> k, v |-> v]
EmptyMap == Map({})

KeysOf(v) == {e.k : e \in v.m}
Get(v, k) == (CHOOSE e \in v.m : e.k = k).v

\* Zero-length file content / byte slice, as opposed to the text of a value.
EmptyBytes == [t |-> "empty", s |-> 0, l |-> <<>>, m |-> {}]

\* syaml.Unmarshal into `var v any`, guarded by len(y) > 0 at the call sites:
\* an empty input leaves v nil; any other text decodes to the value it denotes.
Unmarshal(y) == IF y = EmptyBytes THEN Nil ELSE y

\* syaml.Marshal: the text of the value (nil is the text "null", never empty).
Marshal(v) == v

\* ------------------------------------------------------- helper predicates
isZero(v) == v = Nil

\* A variant of isEmpty that takes only nil for empty.
isEmptyNilOnly(v) == v = Nil

isEmpty(v) ==
    \/ v = Nil
    \/ (v.t = "map" /\ v.m = {})
    \/ (v.t = "list" /\ v.l = <<>>)

asStringMapOk(v) == v.t = "map"

asListOk(v) == v.t = "list"

isScalar(v) == v.t = "scalar"

mapOrNil(es) == IF es = {} THEN Nil ELSE Map(es)

normalizeDocRoot(v) == IF v = Nil THEN EmptyMap ELSE v

\* ------------------------------------------------------ pairwise extractor
RECURSIVE extractCommonValue(_, _, _)

\* A variant of extractCommonValue that takes the first of two unequal scalars
\* for common.
extractCommonValueFirstScalar(a, b, includeLists) ==
    IF isScalar(a) /\ isScalar(b)
    THEN IF a = b THEN [c |-> a, ra |-> Nil, rb |-> Nil]
                  ELSE [c |-> a, ra |-> Nil, rb |-> b]
    ELSE IF asStringMapOk(a) /\ asStringMapOk(b)
    THEN LET both == KeysOf(a) \cap KeysOf(b)
             sub(k) == extractCommonValue(Get(a, k), Get(b, k), includeLists)
             cMap == {Entry(k, sub(k).c) : k \in {x \in both : ~isEmpty(sub(x).c)}}
             raMap == {Entry(k, sub(k).ra) : k \in {x \in both : ~isEmpty(sub(x).ra)}}
                      \cup {Entry(k, Get(a, k)) : k \in KeysOf(a) \ KeysOf(b)}
             rbMap == {Entry(k, sub(k).rb) : k \in {x \in both : ~isEmpty(sub(x).rb)}}
                      \cup {Entry(k, Get(b, k)) : k \in KeysOf(b) \ KeysOf(a)}
         IN [c |-> mapOrNil(cMap), ra |-> mapOrNil(raMap), rb |-> mapOrNil(rbMap)]
    ELSE IF asListOk(a) /\ asListOk(b)
    THEN IF includeLists /\ a = b
         THEN [c |-> a, ra |-> Nil, rb |-> Nil]
         ELSE [c |-> Nil, ra |-> a, rb |-> b]
    ELSE IF isZero(a) /\ ~isZero(b) THEN [c |-> Nil, ra |-> Nil, rb |-> b]
    ELSE IF ~isZero(a) /\ isZero(b) THEN [c |-> Nil, ra |-> a, rb |-> Nil]
    ELSE IF a = b THEN [c |-> a, ra |-> Nil, rb |-> Nil]
    ELSE [c |-> Nil, ra |-> a, rb |-> b]

extractCommonValue(a, b, includeLists) ==
    IF isScalar(a) /\ isScalar(b)
    THEN IF a = b THEN [c |-> a, ra |-> Nil, rb |-> Nil]
                  ELSE [c |-> Nil, ra |-> a, rb |-> b]
    ELSE IF asStringMapOk(a) /\ asStringMapOk(b)
    THEN LET both == KeysOf(a) \cap KeysOf(b)
             sub(k) == extractCommonValue(Get(a, k), Get(b, k), includeLists)
             cMap == {Entry(k, sub(k).c) : k \in {x \in both : ~isEmpty(sub(x).c)}}
             raMap == {Entry(k, sub(k).ra) : k \in {x \in both : ~isEmpty(sub(x).ra)}}
                      \cup {Entry(k, Get(a, k)) : k \in KeysOf(a) \ KeysOf(b)}
             rbMap == {Entry(k, sub(k).rb) : k \in {x \in both : ~isEmpty(sub(x).rb)}}
                      \cup {Entry(k, Get(b, k)) : k \in KeysOf(b) \ KeysOf(a)}
         IN [c |-> mapOrNil(cMap), ra |-> mapOrNil(raMap), rb |-> mapOrNil(rbMap)]
    ELSE IF asListOk(a) /\ asListOk(b)
    THEN IF includeLists /\ a = b
         THEN [c |-> a, ra |-> Nil, rb |-> Nil]
         ELSE [c |-> Nil, ra |-> a, rb |-> b]
    ELSE IF isZero(a) /\ ~isZero(b) THEN [c |-> Nil, ra |-> Nil, rb |-> b]
    ELSE IF ~isZero(a) /\ isZero(b) THEN [c |-> Nil, ra |-> a, rb |-> Nil]
    ELSE IF a = b THEN [c |-> a, ra |-> Nil, rb |-> Nil]
    ELSE [c |-> Nil, ra |-> a, rb |-> b]

\* ExtractCommon on YAML texts: decode, extract, normalise the roots, encode.
ExtractCommon(yaml1, yaml2, includeLists) ==
    LET r == extractCommonValue(Unmarshal(yaml1), Unmarshal(yaml2), includeLists)
    IN [common |-> Marshal(normalizeDocRoot(r.c)),
        rems |-> <<Marshal(normalizeDocRoot(r.ra)), Marshal(normalizeDocRoot(r.rb))>>]

\* --------------------------------------------------------- N-ary extractor
\* computeCommonAcross with the options dropped on the recursive call (the
\* zero Options value, IncludeEqualListsInCommon = false, reaches nested keys).
RECURSIVE computeCommonAcross(_, _)
computeCommonAcrossZeroOptions(values, includeLists) ==
    LET n == Len(values)
        allScalars == \A i \in 1..n : isScalar(values[i])
        allMaps == \A i \in 1..n : asStringMapOk(values[i])
        allLists == \A i \in 1..n : asListOk(values[i])
    IN IF n = 0 THEN Nil
       ELSE IF allScalars
       THEN IF \A i \in 2..n : values[1] = values[i] THEN values[1] ELSE Nil
       ELSE IF allLists
       THEN IF ~includeLists THEN Nil
            ELSE IF \A i \in 2..n : values[1] = values[i] THEN values[1] ELSE Nil
       ELSE IF allMaps
       THEN LET intersection == {k \in KeysOf(values[1]) :
                                    \A i \in 2..n : k \in KeysOf(values[i])}
                cAt(k) == computeCommonAcross([i \in 1..n |-> Get(values[i], k)], FALSE)
                out == {Entry(k, cAt(k)) : k \in {x \in intersection : ~isEmpty(cAt(x))}}
            IN IF intersection = {} THEN Nil ELSE mapOrNil(out)
       ELSE Nil

computeCommonAcross(values, includeLists) ==
    LET n == Len(values)
        allScalars == \A i \in 1..n : isScalar(values[i])
        allMaps == \A i \in 1..n : asStringMapOk(values[i])
        allLists == \A i \in 1..n : asListOk(values[i])
    IN IF n = 0 THEN Nil
       ELSE IF allScalars
       THEN IF \A i \in 2..n : values[1] = values[i] THEN values[1] ELSE Nil
       ELSE IF allLists
       THEN IF ~includeLists THEN Nil
            ELSE IF \A i \in 2..n : values[1] = values[i] THEN values[1] ELSE Nil
       ELSE IF allMaps
       THEN LET intersection == {k \in KeysOf(values[1]) :
                                    \A i \in 2..n : k \in KeysOf(values[i])}
                cAt(k) == computeCommonAcross([i \in 1..n |-> Get(values[i], k)],
                                              includeLists)
                out == {Entry(k, cAt(k)) : k \in {x \in intersection : ~isEmpty(cAt(x))}}
            IN IF intersection = {} THEN Nil ELSE mapOrNil(out)
       ELSE Nil

RECURSIVE subtractCommon(_, _, _)

\* A variant of subtractCommon that subtracts nothing.
subtractCommonKeepsAll(v, common, includeLists) == v

\* A variant of subtractCommon that drops the keys the common map lacks.
subtractCommonDropsOwn(v, common, includeLists) ==
    IF common = Nil THEN v
    ELSE IF isScalar(v) \/ isScalar(common)
    THEN IF v = common THEN Nil ELSE v
    ELSE IF asStringMapOk(v)
    THEN IF asStringMapOk(common)
         THEN LET inC == KeysOf(v) \cap KeysOf(common)
                  r(k) == subtractCommon(Get(v, k), Get(common, k), includeLists)
                  out == {Entry(k, r(k)) : k \in {x \in inC : ~isEmpty(r(x))}}
              IN mapOrNil(out)
         ELSE v
    ELSE IF asListOk(v)
    THEN IF asListOk(common) /\ includeLists /\ v = common THEN Nil ELSE v
    ELSE v

subtractCommon(v, common, includeLists) ==
    IF common = Nil THEN v
    ELSE IF isScalar(v) \/ isScalar(common)
    THEN IF v = common THEN Nil ELSE v
    ELSE IF asStringMapOk(v)
    THEN IF asStringMapOk(common)
         THEN LET inC == KeysOf(v) \cap KeysOf(common)
                  r(k) == subtractCommon(Get(v, k), Get(common, k), includeLists)
                  out == {Entry(k, r(k)) : k \in {x \in inC : ~isEmpty(r(x))}}
                         \cup {Entry(k, Get(v, k)) : k \in KeysOf(v) \ KeysOf(common)}
              IN mapOrNil(out)
         ELSE v
    ELSE IF asListOk(v)
    THEN IF asListOk(common) /\ includeLists /\ v = common THEN Nil ELSE v
    ELSE v

ExtractCommonN(yamls, includeLists) ==
    LET values == [i \in 1..Len(yamls) |-> Unmarshal(yamls[i])]
        common == normalizeDocRoot(computeCommonAcross(values, includeLists))
    IN [common |-> Marshal(common),
        rems |-> [i \in 1..Len(yamls) |->
                    Marshal(normalizeDocRoot(subtractCommon(values[i], common, includeLists)))]]

\* ------------------------------------------------------------------- merge
\* mergeValues returns (value, error); ok = FALSE is the "type conflict" error.
RECURSIVE mergeValues(_, _)

\* A variant of mergeValues that leaves out the keys only the overlay has.
mergeValuesBaseKeys(a, b) ==
    IF a = Nil THEN [ok |-> TRUE, v |-> b]
    ELSE IF b = Nil THEN [ok |-> TRUE, v |-> a]
    ELSE IF a.t = "map"
    THEN IF b.t = "map"
         THEN LET both == KeysOf(a) \cap KeysOf(b)
                  mv(k) == mergeValues(Get(a, k), Get(b, k))
                  out == {Entry(k, Get(a, k)) : k \in KeysOf(a) \ KeysOf(b)}
                         \cup {Entry(k, mv(k).v) : k \in both}
              IN IF \E k \in both : ~mv(k).ok
                 THEN [ok |-> FALSE, v |-> Nil]
                 ELSE [ok |-> TRUE, v |-> Map(out)]
         ELSE [ok |-> FALSE, v |-> Nil]
    ELSE [ok |-> TRUE, v |-> a]

mergeValues(a, b) ==
    IF a = Nil THEN [ok |-> TRUE, v |-> b]
    ELSE IF b = Nil THEN [ok |-> TRUE, v |-> a]
    ELSE IF a.t = "map"
    THEN IF b.t = "map"
         THEN LET both == KeysOf(a) \cap KeysOf(b)
                  mv(k) == mergeValues(Get(a, k), Get(b, k))
                  out == {Entry(k, Get(a, k)) : k \in KeysOf(a) \ KeysOf(b)}
                         \cup {Entry(k, mv(k).v) : k \in both}
                         \cup {Entry(k, Get(b, k)) : k \in KeysOf(b) \ KeysOf(a)}
              IN IF \E k \in both : ~mv(k).ok
                 THEN [ok |-> FALSE, v |-> Nil]
                 ELSE [ok |-> TRUE, v |-> Map(out)]
         ELSE [ok |-> FALSE, v |-> Nil]
    ELSE [ok |-> TRUE, v |-> a]

\* MergeYAML decodes both texts without a length guard (an empty text decodes
\* to nil as well), merges and encodes.
MergeYAML(baseYAML, overlayYAML) ==
    LET merged == mergeValues(Unmarshal(baseYAML), Unmarshal(overlayYAML))
    IN [ok |-> merged.ok, y |-> IF merged.ok THEN Marshal(merged.v) ELSE EmptyBytes]

\* ------------------------------------------------------- document universe
ScalarVals == {Scalar(n) : n \in 1..NumScalars}

\* The lists [], [1], [1, 2], ...: unequal lists that share a prefix.
ListVals == {List([i \in 1..n |-> Scalar(i)]) : n \in 0..MaxListLen}

Atoms == {Nil, EmptyMap} \cup ScalarVals \cup ListVals

KeyNames == {"a", "b"}

\* Number of key entries of a value, nested ones included.
RECURSIVE Entries(_)
Entries(v) ==
    IF v.t # "map" \/ v.m = {} THEN 0
    ELSE LET e == CHOOSE x \in v.m : TRUE
         IN 1 + Entries(e.v) + Entries(Map(v.m \ {e}))

\* Maps over KeyNames whose values come from vals.
MapsOver(vals) ==
    LET opt == vals \cup {EmptyBytes}
    IN {Map({Entry(k, f[k]) : k \in {x \in KeyNames : f[x] # EmptyBytes}}) :
            f \in [KeyNames -> opt]}

RECURSIVE ValuesOfEntries(_)
ValuesOfEntries(n) ==
    IF n = 0 THEN Atoms
    ELSE LET smaller == ValuesOfEntries(n - 1)
         IN {v \in Atoms \cup MapsOver(smaller) : Entries(v) <= n}

\* Texts of the documents the operations are run on.
Docs == ValuesOfEntries(MaxEntries) \cup {EmptyBytes}

\* Lists of three or more documents are drawn from the one-entry maps.
SmallDocs == {v \in ValuesOfEntries(1) : v.t = "map"}

\* ------------------------------------------------- paths and file system
\* A path is the sequence of its components: <<"r", "b", "values.yaml">>.
ValuesName == "values.yaml"
Base(p) == p[Len(p)]
Dir(p) == SubSeq(p, 1, Len(p) - 1)
Join(d, name) == Append(d, name)

\* No file at a path (as opposed to a file of zero length).
NoFile == [t |-> "nofile", s |-> 0, l |-> <<>>, m |-> {}]

Root == <<"r">>
MidB == <<"r", "b">>
MidC == <<"r", "c">>
LeafX == <<"r", "b", "x">>
LeafY == <<"r", "b", "y">>
LeafZ == <<"r", "c", "z">>
LeafW == <<"r", "c", "w">>
TreeDirs == {Root, MidB, MidC, LeafX, LeafY, LeafZ, LeafW}
LeafDirs == {LeafX, LeafY, LeafZ, LeafW}

\* A directory whose name is values.yaml, and a file with another name.
DirNamedValues == <<"r", "b", "d", "values.yaml">>
OtherFile == <<"r", "b", "x", "other.yaml">>

FilePaths == {Join(d, ValuesName) : d \in TreeDirs} \cup {OtherFile}

\* Documents found in values.yaml files: the maps of scalars over KeyNames.
FileDocs ==
    {Map({Entry(k, f[k]) : k \in {x \in KeyNames : f[x] # NoFile}}) :
        f \in [KeyNames -> ScalarVals \cup {NoFile}]}

PreDoc == Map({Entry("b", Scalar(2))})

\* os.Stat: "dir", "file" or "none".
stat(fs, ds, p) ==
    IF p \in ds THEN "dir"
    ELSE IF p \in DOMAIN fs /\ fs[p] # NoFile THEN "file"
    ELSE "none"

assertFileExists(fs, ds, p) == stat(fs, ds, p) = "file"

\* A variant of isEmptyYAML that takes only a zero-length text for empty.
isEmptyYAMLOnlyNoBytes(b) == b = EmptyBytes

\* values.isEmptyYAML: the text decodes to nil, an empty map or an empty list.
isEmptyYAML(b) ==
    LET v == Unmarshal(b)
    IN v = Nil \/ (v.t = "map" /\ v.m = {}) \/ (v.t = "list" /\ v.l = <<>>)

\* A variant of validatePaths without the check of the shared parent.
validatePathsAnyParent(fs, ds, paths) ==
    /\ Len(paths) >= 2
    /\ \A i \in 1..Len(paths) :
          /\ Base(paths[i]) = ValuesName
          /\ assertFileExists(fs, ds, paths[i])

\* The checks of values.ExtractCommonN before anything is read.
validatePaths(fs, ds, paths) ==
    /\ Len(paths) >= 2
    /\ \A i \in 1..Len(paths) :
          /\ Base(paths[i]) = ValuesName
          /\ assertFileExists(fs, ds, paths[i])
    /\ Cardinality({Dir(Dir(paths[i])) : i \in 1..Len(paths)}) = 1

\* The checks of values.ExtractCommon(path1, path2) before anything is read.
validatePair(fs, ds, path1, path2) ==
    /\ Base(path1) = ValuesName /\ Base(path2) = ValuesName
    /\ assertFileExists(fs, ds, path1)
    /\ assertFileExists(fs, ds, path2)
    /\ Dir(Dir(path1)) = Dir(Dir(path2))

\* The writes of values.ExtractCommon(path1, path2), in order.
pairWrites(fs, path1, path2, includeLists) ==
    LET r == ExtractCommon(fs[path1], fs[path2], includeLists)
    IN <<[path |-> Join(Dir(Dir(path1)), ValuesName), data |-> r.common],
         [path |-> path1, data |-> r.rems[1]],
         [path |-> path2, data |-> r.rems[2]]>>

\* A variant of groupWrites that writes the first remainder to every input.
groupWritesFirstRemainder(fs, paths, includeLists) ==
    LET r == ExtractCommonN([i \in 1..Len(paths) |-> fs[paths[i]]], includeLists)
        parent == Dir(Dir(paths[1]))
    IN <<[path |-> Join(parent, ValuesName), data |-> r.common]>>
       \o [i \in 1..Len(paths) |-> [path |-> paths[i], data |-> r.rems[1]]]

\* A variant of groupWrites that rewrites the inputs before it writes the
\* common file.
groupWritesChildrenFirst(fs, paths, includeLists) ==
    LET r == ExtractCommonN([i \in 1..Len(paths) |-> fs[paths[i]]], includeLists)
        parent == Dir(Dir(paths[1]))
    IN [i \in 1..Len(paths) |-> [path |-> paths[i], data |-> r.rems[i]]]
       \o <<[path |-> Join(parent, ValuesName), data |-> r.common]>>

\* The writes of values.ExtractCommonN, in order: the common file in the shared
\* parent directory, then every input file with its remainder.
groupWrites(fs, paths, includeLists) ==
    LET r == ExtractCommonN([i \in 1..Len(paths) |-> fs[paths[i]]], includeLists)
        parent == Dir(Dir(paths[1]))
    IN <<[path |-> Join(parent, ValuesName), data |-> r.common]>>
       \o [i \in 1..Len(paths) |-> [path |-> paths[i], data |-> r.rems[i]]]

\* writeFileAtomic when it succeeds (temp file, then rename over the target);
\* when it fails the target is left as it was.
writeFileAtomic(fs, path, data) == [fs EXCEPT ![path] = data]

RECURSIVE applyWrites(_, _, _)
applyWrites(fs, ws, k) ==
    IF k = 0 THEN fs
    ELSE writeFileAtomic(applyWrites(fs, ws, k - 1), ws[k].path, ws[k].data)

\* values.ExtractCommonN up to its first write: validation, reading, the
\* computation, and the ErrNoCommon return when the common part is empty.
\* readOk: os.ReadFile succeeds on every path.
prepareGroup(fs, ds, paths, includeLists, readOk) ==
    IF ~validatePaths(fs, ds, paths) THEN [err |-> "invalid", ws |-> <<>>]
    ELSE IF ~readOk THEN [err |-> "read", ws |-> <<>>]
    ELSE LET ws == groupWrites(fs, paths, includeLists)
         IN IF isEmptyYAML(ws[1].data) THEN [err |-> "ErrNoCommon", ws |-> <<>>]
            ELSE [err |-> "none", ws |-> ws]

\* values.ExtractCommon(path1, path2) up to its first write.
preparePair(fs, ds, path1, path2, includeLists, readOk) ==
    IF ~validatePair(fs, ds, path1, path2) THEN [err |-> "invalid", ws |-> <<>>]
    ELSE IF ~readOk THEN [err |-> "read", ws |-> <<>>]
    ELSE LET ws == pairWrites(fs, path1, path2, includeLists)
         IN IF isEmptyYAML(ws[1].data) THEN [err |-> "ErrNoCommon", ws |-> <<>>]
            ELSE [err |-> "none", ws |-> ws]

\* values.ExtractCommonN as a whole; okWrites: how many writes succeed before
\* one fails (none fails when okWrites is at least the number of writes).
valuesExtractCommonN(fs, ds, paths, includeLists, readOk, okWrites) ==
    LET g == prepareGroup(fs, ds, paths, includeLists, readOk)
        n == IF okWrites < Len(g.ws) THEN okWrites ELSE Len(g.ws)
    IN IF g.err # "none"
       THEN [err |-> g.err, commonPath |-> <<>>, fs |-> fs]
       ELSE [err |-> IF n < Len(g.ws) THEN "write" ELSE "none",
             commonPath |-> IF n < Len(g.ws) THEN <<>> ELSE g.ws[1].path,
             fs |-> applyWrites(fs, g.ws, n)]

\* pathDepth: the number of ancestors of p up to the file system root.
pathDepth(p) == Len(p)

\* Rank of a component in byte order (the components start with distinct letters).
NameRank(name) ==
    CASE name = "b" -> 1 [] name = "c" -> 2 [] name = "d" -> 3
      [] name = "other.yaml" -> 4 [] name = "r" -> 5 [] name = "values.yaml" -> 6
      [] name = "w" -> 7 [] name = "x" -> 8 [] name = "y" -> 9 [] name = "z" -> 10

\* p sorts before q as a string ("/"-joined): sort.Strings order.
RECURSIVE PathLess(_, _)
PathLess(p, q) ==
    IF p = <<>> THEN q # <<>>
    ELSE IF q = <<>> THEN FALSE
    ELSE IF Head(p) = Head(q) THEN PathLess(Tail(p), Tail(q))
    ELSE NameRank(Head(p)) < NameRank(Head(q))

RECURSIVE SortPaths(_)
SortPaths(S) ==
    IF S = {} THEN <<>>
    ELSE LET least == CHOOSE p \in S : \A q \in S \ {p} : PathLess(p, q)
         IN <<least>> \o SortPaths(S \ {least})

\* filepath.WalkDir visits a directory's entries in lexical order, so the
\* children of a parent are appended in that order.
childrenOf(ds, parent) == SortPaths({d \in ds : Len(d) > 1 /\ Dir(d) = parent})

\* The orders sort.Slice may leave the parents in: deepest first, parents of
\* equal depth in any order (map iteration order, unstable sort).
parentOrders(ds) ==
    LET ps == {Dir(d) : d \in {x \in ds : Len(x) > 1 /\ Dir(x) \in ds}}
        n == Cardinality(ps)
    IN {q \in [1..n -> ps] :
            /\ \A i, j \in 1..n : i < j => q[i] # q[j] /\ pathDepth(q[i]) >= pathDepth(q[j])}

\* ------------------------------------------------------------------- state
VARIABLES
    docs,               \* pkg/yaml: the YAML texts given to the operation
    includeEqualLists,  \* the IncludeEqualListsInCommon option
    op,                 \* pkg/yaml: the operation that ran
    out,                \* pkg/yaml: its results
    files,              \* file system: path -> content, NoFile when absent
    dirs,               \* file system: the directories
    orig,               \* the files before the call
    call,               \* the running call of values.ExtractCommonN
    procs,              \* two concurrent calls of values.ExtractCommonN
    rec                 \* the running call of values.ExtractCommonRecursive

vars == <<docs, includeEqualLists, op, out, files, dirs, orig, call, procs, rec>>
yamlVars == <<docs, op, out>>
fsVars == <<files, dirs, orig, call, procs, rec>>

NoOut == [common |-> EmptyBytes, rems |-> <<>>, ok |-> TRUE, merged |-> EmptyBytes]
NoCall == [st |-> "idle", kind |-> "none", paths |-> <<>>, readOk |-> FALSE, ws |-> <<>>,
           idx |-> 0, err |-> "none", commonPath |-> <<>>, wrote |-> {}]
NoRec == [pc |-> "idle", parents |-> <<>>, pi |-> 0, pass |-> 0, hasValues |-> {},
          createdInPass |-> 0, createdSet |-> {}, err |-> "none", created |-> <<>>,
          atPassStart |-> <<>>, lastErr |-> "nocall", wroteParents |-> {},
          run |-> 1, before |-> <<>>]
NoFiles == [p \in FilePaths |-> NoFile]
NoProc == [kind |-> "none", pc |-> "idle", parents |-> <<>>, pi |-> 0, hasValues |-> {},
           createdInPass |-> 0, createdSet |-> {}, err |-> "none",
           paths |-> <<>>, read |-> <<>>, ws |-> <<>>, idx |-> 0]
NoProcs == [ps |-> <<NoProc, NoProc>>, overlap |-> FALSE]

\* ---------------------------------------------------- pkg/yaml operations
Init ==
    /\ \/ docs \in [1..2 -> Docs]
       \/ \E n \in 3..MaxDocs : docs \in [1..n -> SmallDocs]
    /\ includeEqualLists \in BOOLEAN
    /\ op = "none"
    /\ out = NoOut
    /\ files = NoFiles /\ dirs = {} /\ orig = NoFiles /\ call = NoCall /\ rec = NoRec
    /\ procs = NoProcs

\* yaml.ExtractCommon(docs[1], docs[2], WithIncludeEqualListsInCommon(...))
DoExtractCommon ==
    /\ op = "none"
    /\ Len(docs) = 2
    /\ LET r == ExtractCommon(docs[1], docs[2], includeEqualLists)
       IN out' = [NoOut EXCEPT !.common = r.common, !.rems = r.rems]
    /\ op' = "ExtractCommon"
    /\ UNCHANGED <<docs, includeEqualLists>>
    /\ UNCHANGED fsVars

\* yaml.ExtractCommonN(docs, WithIncludeEqualListsInCommon(...))
DoExtractCommonN ==
    /\ op = "none"
    /\ Len(docs) >= 2
    /\ LET r == ExtractCommonN(docs, includeEqualLists)
       IN out' = [NoOut EXCEPT !.common = r.common, !.rems = r.rems]
    /\ op' = "ExtractCommonN"
    /\ UNCHANGED <<docs, includeEqualLists>>
    /\ UNCHANGED fsVars

\* yaml.MergeYAML(base = docs[1], overlay = docs[2])
DoMergeYAML ==
    /\ op = "none"
    /\ Len(docs) = 2
    /\ LET r == MergeYAML(docs[1], docs[2])
       IN out' = [NoOut EXCEPT !.ok = r.ok, !.merged = r.y]
    /\ op' = "MergeYAML"
    /\ UNCHANGED <<docs, includeEqualLists>>
    /\ UNCHANGED fsVars

Next == DoExtractCommon \/ DoExtractCommonN \/ DoMergeYAML

Spec == Init /\ [][Next]_vars

\* ------------------------------------- values.ExtractCommonN on sibling files
\* The paths a caller may pass.
CandidatePaths ==
    {Join(LeafX, ValuesName), Join(LeafY, ValuesName), Join(LeafZ, ValuesName),
     OtherFile, DirNamedValues}

MaxPaths == 3

InitFiles ==
    /\ docs = <<>> /\ op = "none" /\ out = NoOut
    /\ includeEqualLists \in BOOLEAN
    /\ dirs = TreeDirs \cup {Dir(DirNamedValues), DirNamedValues}
    /\ \E x \in FileDocs, y \in FileDocs \cup {NoFile}, pre \in {NoFile, PreDoc} :
          files = [NoFiles EXCEPT ![Join(LeafX, ValuesName)] = x,
                                  ![Join(LeafY, ValuesName)] = y,
                                  ![Join(LeafZ, ValuesName)] = x,
                                  ![OtherFile] = x,
                                  ![Join(MidB, ValuesName)] = pre]
    /\ orig = files
    /\ call = NoCall
    /\ procs = NoProcs
    /\ rec = NoRec

\* Entry of values.ExtractCommon(path1, path2): validation, reading and the
\* computation of the common part and the remainders; nothing is written yet.
CallExtractCommon ==
    /\ call.st = "idle"
    /\ \E path1, path2 \in CandidatePaths : \E readOk \in BOOLEAN :
          LET g == preparePair(files, dirs, path1, path2, includeEqualLists, readOk)
              c == [NoCall EXCEPT !.kind = "pair", !.paths = <<path1, path2>>,
                                  !.readOk = readOk, !.err = g.err, !.ws = g.ws]
          IN call' = [c EXCEPT !.st = IF g.err = "none" THEN "writing" ELSE "done"]
    /\ UNCHANGED <<docs, includeEqualLists, op, out, files, dirs, orig, procs, rec>>

\* Entry of values.ExtractCommonN(paths): validation, reading and the
\* computation of the common part and the remainders; nothing is written yet.
CallExtractCommonN ==
    /\ call.st = "idle"
    /\ \E n \in 0..MaxPaths : \E paths \in [1..n -> CandidatePaths] : \E readOk \in BOOLEAN :
          LET g == prepareGroup(files, dirs, paths, includeEqualLists, readOk)
              c == [NoCall EXCEPT !.kind = "N", !.paths = paths,
                                  !.readOk = readOk, !.err = g.err, !.ws = g.ws]
          IN call' = [c EXCEPT !.st = IF g.err = "none" THEN "writing" ELSE "done"]
    /\ UNCHANGED <<docs, includeEqualLists, op, out, files, dirs, orig, procs, rec>>

\* The next writeFileAtomic of the call succeeds.
WriteOk ==
    /\ call.st = "writing"
    /\ LET w == call.ws[call.idx + 1]
           last == call.idx + 1 = Len(call.ws)
       IN /\ files' = writeFileAtomic(files, w.path, w.data)
          /\ call' = [call EXCEPT !.idx = @ + 1,
                                  !.wrote = @ \cup {w.path},
                                  !.st = IF last THEN "done" ELSE "writing",
                                  !.commonPath = IF last THEN call.ws[1].path ELSE <<>>]
    /\ UNCHANGED <<docs, includeEqualLists, op, out, dirs, orig, procs, rec>>

\* The next writeFileAtomic of the call fails: the call returns its error.
WriteFails ==
    /\ call.st = "writing"
    /\ call' = [call EXCEPT !.st = "done", !.err = "write"]
    /\ UNCHANGED <<docs, includeEqualLists, op, out, files, dirs, orig, procs, rec>>

NextFiles == CallExtractCommon \/ CallExtractCommonN \/ WriteOk \/ WriteFails

SpecFiles == InitFiles /\ [][NextFiles]_vars

\* ----------------------------------------------- values.ExtractCommonRecursive
NonLeafDirs == TreeDirs \ LeafDirs

\* Leaf documents of the tree: key "a" holds 1 or a nested map, key "b" is
\* absent or 1 (beside a scalar "a") or sits inside the nested map.
RecDocs ==
    {Map({Entry("a", Scalar(1))}),
     Map({Entry("a", Scalar(1)), Entry("b", Scalar(1))}),
     Map({Entry("a", Map({Entry("a", Scalar(1))}))}),
     Map({Entry("a", Map({Entry("a", Scalar(1)), Entry("b", Scalar(1))}))})}

InitRec ==
    /\ docs = <<>> /\ op = "none" /\ out = NoOut
    /\ includeEqualLists = TRUE
    /\ dirs = TreeDirs
    /\ \E leaf \in [LeafDirs -> RecDocs \cup {NoFile}], pre \in SUBSET NonLeafDirs :
          files = [p \in FilePaths |->
                      IF Dir(p) \in LeafDirs /\ Base(p) = ValuesName THEN leaf[Dir(p)]
                      ELSE IF Dir(p) \in pre /\ Base(p) = ValuesName THEN PreDoc
                      ELSE NoFile]
    /\ orig = files
    /\ call = NoCall
    /\ procs = NoProcs
    /\ rec = NoRec

\* A variant of groupPaths that takes only the children without children of
\* their own.
groupPathsLeavesOnly(fs, ds, hasValues, parent) ==
    LET children == childrenOf(ds, parent)
        Has(child) == child \in hasValues
                      /\ childrenOf(ds, child) = <<>>
                      /\ stat(fs, ds, Join(child, ValuesName)) = "file"
        kept == SelectSeq(children, Has)
    IN [i \in 1..Len(kept) |-> Join(kept[i], ValuesName)]

\* The values.yaml files of the child directories of parent that are marked in
\* hasValues and are files now, in the order of the children.
groupPaths(fs, ds, hasValues, parent) ==
    LET children == childrenOf(ds, parent)
        Has(child) == child \in hasValues
                      /\ stat(fs, ds, Join(child, ValuesName)) = "file"
        kept == SelectSeq(children, Has)
    IN [i \in 1..Len(kept) |-> Join(kept[i], ValuesName)]

\* ExtractCommonRecursive(Root) up to its loop: the root is a directory, the
\* walk lists the directories, hasValues marks those holding a values.yaml,
\* the parents are sorted deepest first.
RecStart ==
    /\ rec.pc = "idle"
    /\ stat(files, dirs, Root) = "dir"
    /\ \E order \in parentOrders(dirs) :
          rec' = [NoRec EXCEPT
                    !.pc = "loop", !.parents = order, !.pi = 1, !.pass = 1,
                    !.hasValues = {d \in dirs : stat(files, dirs, Join(d, ValuesName)) = "file"},
                    !.atPassStart = files]
    /\ UNCHANGED <<docs, includeEqualLists, op, out, files, dirs, orig, call, procs>>

\* A parent with fewer than two child values.yaml files is passed over.
RecSkipGroup ==
    /\ rec.pc = "loop"
    /\ rec.pi <= Len(rec.parents)
    /\ Len(groupPaths(files, dirs, rec.hasValues, rec.parents[rec.pi])) < 2
    /\ rec' = [rec EXCEPT !.pi = @ + 1, !.lastErr = "nocall"]
    /\ UNCHANGED <<docs, includeEqualLists, op, out, files, dirs, orig, call, procs>>

\* A variant of markParent that counts every extraction as a new parent file.
markParentCountsAll(r, parent, commonPath) ==
    [r EXCEPT !.hasValues = @ \cup {parent},
              !.createdInPass = @ + 1,
              !.createdSet = @ \cup {commonPath}]

\* A variant of markParent that records the path of a new parent file only.
markParentNewOnly(r, parent, commonPath) ==
    [r EXCEPT !.hasValues = @ \cup {parent},
              !.createdInPass = IF parent \in r.hasValues THEN @ ELSE @ + 1,
              !.createdSet = IF parent \in r.hasValues THEN @ ELSE @ \cup {commonPath}]

\* A variant of markParent that does not mark the parent in hasValues.
markParentNotMarked(r, parent, commonPath) ==
    [r EXCEPT !.createdInPass = IF parent \in r.hasValues THEN @ ELSE @ + 1,
              !.createdSet = @ \cup {commonPath}]

\* After a successful ExtractCommonN: the parent is marked as having a values
\* file, counted if it was not marked before, and the path is recorded.
markParent(r, parent, commonPath) ==
    [r EXCEPT !.hasValues = @ \cup {parent},
              !.createdInPass = IF parent \in r.hasValues THEN @ ELSE @ + 1,
              !.createdSet = @ \cup {commonPath}]

\* A variant of handleGroupResult that passes over a group on any error.
handleGroupResultAbsorbsAll(r, parent, res) ==
    IF res.err # "none" THEN [r EXCEPT !.pi = @ + 1]
    ELSE [markParent(r, parent, res.commonPath) EXCEPT !.pi = @ + 1]

\* What the loop does with the result of ExtractCommonN: ErrNoCommon passes
\* on to the next parent, any other error ends the run with that error, a
\* success marks the parent.
handleGroupResult(r, parent, res) ==
    IF res.err = "ErrNoCommon" THEN [r EXCEPT !.pi = @ + 1]
    ELSE IF res.err # "none" THEN [r EXCEPT !.pc = "done", !.err = res.err]
    ELSE [markParent(r, parent, res.commonPath) EXCEPT !.pi = @ + 1]

\* ExtractCommonN on the group of the current parent, and what the loop does
\* with its result.
RecExtractGroup ==
    /\ rec.pc = "loop"
    /\ rec.pi <= Len(rec.parents)
    /\ LET parent == rec.parents[rec.pi]
           paths == groupPaths(files, dirs, rec.hasValues, parent)
       IN /\ Len(paths) >= 2
          /\ \E readOk \in BOOLEAN, okWrites \in 0..(Len(paths) + 1) :
                LET r == valuesExtractCommonN(files, dirs, paths, includeEqualLists,
                                              readOk, okWrites)
                    wrote == IF r.err = "none" THEN {Join(parent, ValuesName)} ELSE {}
                IN /\ files' = r.fs
                   /\ rec' = [handleGroupResult(rec, parent, r) EXCEPT
                                 !.lastErr = r.err,
                                 !.wroteParents = @ \cup wrote]
    /\ UNCHANGED <<docs, includeEqualLists, op, out, dirs, orig, call, procs>>

\* End of a pass: stop when it created no new parent file, else pass again.
RecEndPass ==
    /\ rec.pc = "loop"
    /\ rec.pi = Len(rec.parents) + 1
    /\ rec' = IF rec.createdInPass = 0
              THEN [rec EXCEPT !.pc = "done", !.created = SortPaths(rec.createdSet),
                               !.lastErr = "nocall"]
              ELSE [rec EXCEPT !.pi = 1, !.pass = @ + 1, !.createdInPass = 0,
                               !.atPassStart = files, !.lastErr = "nocall"]
    /\ UNCHANGED <<docs, includeEqualLists, op, out, files, dirs, orig, call, procs>>

NextRec == RecStart \/ RecSkipGroup \/ RecExtractGroup \/ RecEndPass

SpecRec == InitRec /\ [][NextRec]_vars

\* ---------------------------------------- ExtractCommonRecursive, run twice
\* After a run that returned without error the caller runs
\* ExtractCommonRecursive(Root) once more, with the same options, on the tree
\* the first run left.
RecAgain ==
    /\ rec.pc = "done" /\ rec.err = "none" /\ rec.run = 1
    /\ stat(files, dirs, Root) = "dir"
    /\ \E order \in parentOrders(dirs) :
          rec' = [NoRec EXCEPT
                    !.pc = "loop", !.parents = order, !.pi = 1, !.pass = 1,
                    !.hasValues = {d \in dirs : stat(files, dirs, Join(d, ValuesName)) = "file"},
                    !.atPassStart = files,
                    !.run = 2, !.before = files]
    /\ UNCHANGED <<docs, includeEqualLists, op, out, files, dirs, orig, call, procs>>

NextRecTwice == RecStart \/ RecSkipGroup \/ RecExtractGroup \/ RecEndPass \/ RecAgain

SpecRecTwice == InitRec /\ [][NextRecTwice]_vars

\* ------------------------------------------------ two concurrent callers
\* Two goroutines (or processes) work on the same tree at the same time, each
\* either calling values.ExtractCommonN on the two files under r/b or running
\* ExtractCommonRecursive on r.  Every os.ReadFile and every os.Rename is one
\* step; the steps of the two callers interleave freely.  r/c is a leaf here.
ConcDirs == {Root, MidB, MidC, LeafX, LeafY}
ConcLeaves == {LeafX, LeafY, MidC}
ConcPaths == <<Join(LeafX, ValuesName), Join(LeafY, ValuesName)>>

\* Documents of the leaves: those of RecDocs, one that shares nothing with
\* them, and one holding a list.
ConcDocs ==
    RecDocs \cup {Map({Entry("b", Scalar(1))}), Map({Entry("a", List(<<Scalar(1)>>))})}

InitConc ==
    /\ docs = <<>> /\ op = "none" /\ out = NoOut
    /\ includeEqualLists = TRUE
    /\ dirs = ConcDirs
    /\ \E leaf \in [ConcLeaves -> ConcDocs] :
          files = [p \in FilePaths |->
                      IF Dir(p) \in ConcLeaves /\ Base(p) = ValuesName THEN leaf[Dir(p)]
                      ELSE NoFile]
    /\ orig = files
    /\ call = NoCall
    /\ procs = NoProcs
    /\ rec = NoRec

Running(p) == procs.ps[p].pc \notin {"idle", "done"}

\* A step of caller p overlaps the other caller when that one has started and
\* has not returned.
stepOf(p, next) ==
    [ps |-> [procs.ps EXCEPT ![p] = next],
     overlap |-> procs.overlap \/ \E q \in DOMAIN procs.ps : q # p /\ Running(q)]

\* The file contents a call has read, as the file system it computes from.
readSnapshot(paths, yams) ==
    [q \in FilePaths |->
        IF \E i \in 1..Len(yams) : paths[i] = q
        THEN yams[CHOOSE i \in 1..Len(yams) : paths[i] = q]
        ELSE NoFile]

\* A variant of noCommon that never returns ErrNoCommon.
noCommonNever(ws) == FALSE

\* The check before the writes: the common document is empty.
noCommon(ws) == isEmptyYAML(ws[1].data)

\* values.ExtractCommonN up to its first read, in caller me.
enterGroup(me, paths) ==
    IF validatePaths(files, dirs, paths)
    THEN [me EXCEPT !.pc = "reading", !.paths = paths, !.read = <<>>,
                    !.ws = <<>>, !.idx = 0]
    ELSE [me EXCEPT !.pc = "done", !.err = "invalid"]

\* The return of values.ExtractCommonN to caller me: a direct call returns to
\* its caller, the loop of ExtractCommonRecursive handles the result.
leaveGroup(me, err) ==
    IF me.kind = "call" THEN [me EXCEPT !.pc = "done", !.err = err]
    ELSE LET parent == Dir(Dir(me.paths[1]))
             res == [err |-> err, commonPath |-> Join(parent, ValuesName)]
             r == handleGroupResult(me, parent, res)
         IN [r EXCEPT !.pc = IF r.pc = "done" THEN "done" ELSE "loop"]

\* Caller p calls values.ExtractCommonN(ConcPaths).
ConcCall(p) ==
    /\ procs.ps[p].pc = "idle"
    /\ procs' = stepOf(p, enterGroup([procs.ps[p] EXCEPT !.kind = "call"], ConcPaths))
    /\ UNCHANGED <<docs, includeEqualLists, op, out, files, dirs, orig, call, rec>>

\* Caller p calls ExtractCommonRecursive(Root), up to its loop.
ConcRecStart(p) ==
    /\ procs.ps[p].pc = "idle"
    /\ stat(files, dirs, Root) = "dir"
    /\ \E order \in parentOrders(dirs) :
          procs' = stepOf(p, [procs.ps[p] EXCEPT
                    !.kind = "rec", !.pc = "loop", !.parents = order, !.pi = 1,
                    !.hasValues = {d \in dirs : stat(files, dirs, Join(d, ValuesName)) = "file"}])
    /\ UNCHANGED <<docs, includeEqualLists, op, out, files, dirs, orig, call, rec>>

\* The loop of caller p passes over a parent with fewer than two child files.
ConcSkipGroup(p) ==
    /\ procs.ps[p].pc = "loop"
    /\ procs.ps[p].pi <= Len(procs.ps[p].parents)
    /\ LET me == procs.ps[p]
       IN /\ Len(groupPaths(files, dirs, me.hasValues, me.parents[me.pi])) < 2
          /\ procs' = stepOf(p, [me EXCEPT !.pi = @ + 1])
    /\ UNCHANGED <<docs, includeEqualLists, op, out, files, dirs, orig, call, rec>>

\* The loop of caller p calls values.ExtractCommonN on the current group.
ConcEnterGroup(p) ==
    /\ procs.ps[p].pc = "loop"
    /\ procs.ps[p].pi <= Len(procs.ps[p].parents)
    /\ LET me == procs.ps[p]
           paths == groupPaths(files, dirs, me.hasValues, me.parents[me.pi])
       IN /\ Len(paths) >= 2
          /\ procs' = stepOf(p, enterGroup(me, paths))
    /\ UNCHANGED <<docs, includeEqualLists, op, out, files, dirs, orig, call, rec>>

\* Caller p reads its next file; after the last one it computes the common
\* document and the remainders and returns ErrNoCommon or goes on to write.
ConcRead(p) ==
    /\ procs.ps[p].pc = "reading"
    /\ LET me == procs.ps[p]
           yams == Append(me.read, files[me.paths[Len(me.read) + 1]])
           ws == groupWrites(readSnapshot(me.paths, yams), me.paths, includeEqualLists)
       IN procs' = stepOf(p,
             IF Len(yams) < Len(me.paths) THEN [me EXCEPT !.read = yams]
             ELSE IF noCommon(ws) THEN leaveGroup([me EXCEPT !.read = yams], "ErrNoCommon")
             ELSE [me EXCEPT !.read = yams, !.pc = "writing", !.ws = ws])
    /\ UNCHANGED <<docs, includeEqualLists, op, out, files, dirs, orig, call, rec>>

\* Caller p renames its next temporary file over the target; after the last
\* one ExtractCommonN returns the path of the common file.
ConcWrite(p) ==
    /\ procs.ps[p].pc = "writing"
    /\ LET me == procs.ps[p]
           w == me.ws[me.idx + 1]
       IN /\ files' = writeFileAtomic(files, w.path, w.data)
          /\ procs' = stepOf(p,
                IF me.idx + 1 = Len(me.ws)
                THEN leaveGroup([me EXCEPT !.idx = @ + 1], "none")
                ELSE [me EXCEPT !.idx = @ + 1])
    /\ UNCHANGED <<docs, includeEqualLists, op, out, dirs, orig, call, rec>>

\* The next write of caller p fails: the target is left alone and the error
\* is returned.
ConcWriteFails(p) ==
    /\ procs.ps[p].pc = "writing"
    /\ procs' = stepOf(p, leaveGroup(procs.ps[p], "write"))
    /\ UNCHANGED <<docs, includeEqualLists, op, out, files, dirs, orig, call, rec>>

\* End of a pass of caller p: stop when it created no new parent file.
ConcEndPass(p) ==
    /\ procs.ps[p].pc = "loop"
    /\ procs.ps[p].pi = Len(procs.ps[p].parents) + 1
    /\ procs' = stepOf(p,
          IF procs.ps[p].createdInPass = 0 THEN [procs.ps[p] EXCEPT !.pc = "done"]
          ELSE [procs.ps[p] EXCEPT !.pi = 1, !.createdInPass = 0])
    /\ UNCHANGED <<docs, includeEqualLists, op, out, files, dirs, orig, call, rec>>

NextConc ==
    \E p \in DOMAIN procs.ps :
        \/ ConcCall(p) \/ ConcRecStart(p) \/ ConcSkipGroup(p) \/ ConcEnterGroup(p)
        \/ ConcRead(p) \/ ConcWrite(p) \/ ConcWriteFails(p) \/ ConcEndPass(p)

SpecConc == InitConc /\ [][NextConc]_vars

\* ------------------------------------------------- properties: pkg/yaml
Decoded(i) == Unmarshal(docs[i])

\* Deep equality of two documents; an empty or null document counts as {}.
SameDoc(x, y) == normalizeDocRoot(Unmarshal(x)) = normalizeDocRoot(Unmarshal(y))

\* merge(remainder i, common) succeeds and gives back document i.
Rebuilds(i) ==
    LET m == MergeYAML(out.rems[i], out.common)
    IN m.ok /\ SameDoc(m.y, docs[i])

RECURSIVE HasList(_)
HasList(v) == v.t = "list" \/ (v.t = "map" /\ \E e \in v.m : HasList(e.v))

\* Some key, at any depth, holds null, an empty mapping or an empty sequence.
RECURSIVE HasBlank(_)
HasBlank(v) == v.t = "map" /\ \E e \in v.m : isEmpty(e.v) \/ HasBlank(e.v)

AllSame == \A i \in 1..Len(docs) : Decoded(i) = Decoded(1)

\* C1: pairwise invertibility. After ExtractCommon(a, b), with either option
\* setting, merge(ra, common) succeeds and deep-equals a, and merge(rb, common)
\* succeeds and deep-equals b.
C1_PairwiseInvertible ==
    op = "ExtractCommon" => \A i \in 1..2 : Rebuilds(i)

\* C2: N-ary invertibility. After ExtractCommonN(docs), for every index i,
\* merge(remainders[i], common) succeeds and deep-equals docs[i].
C2_NaryInvertible ==
    op = "ExtractCommonN" => \A i \in 1..Len(docs) : Rebuilds(i)

\* Both sides hold a sequence, or either side holds a scalar, and they differ.
Conflict(b, o) ==
    /\ b # Nil /\ o # Nil /\ b # o
    /\ (b.t = "list" /\ o.t = "list") \/ b.t = "scalar" \/ o.t = "scalar"

\* C3: in merge(base, overlay), where both sides hold a sequence or either
\* side holds a scalar, at the root or at the same key, and the values differ,
\* the merge succeeds and the result there is the overlay's value, whole.
C3_OverlayWins ==
    op = "MergeYAML" =>
        LET b == Unmarshal(docs[1])
            o == Unmarshal(docs[2])
            r == Unmarshal(out.merged)
        IN /\ Conflict(b, o) => out.ok /\ r = o
           /\ (b.t = "map" /\ o.t = "map") =>
                 \A k \in KeysOf(b) \cap KeysOf(o) :
                    Conflict(Get(b, k), Get(o, k)) =>
                        out.ok /\ k \in KeysOf(r) /\ Get(r, k) = Get(o, k)

\* C9 as stated: if all documents given to ExtractCommonN are pairwise
\* identical, common deep-equals docs[0] and every remainder is the empty
\* mapping.
C9_IdenticalAllCommon ==
    (op = "ExtractCommonN" /\ AllSame) =>
        /\ SameDoc(out.common, docs[1])
        /\ \A i \in 1..Len(docs) : out.rems[i] = EmptyMap

C9_Pre ==
    /\ op = "ExtractCommonN"
    /\ AllSame
    /\ ~HasBlank(Decoded(1))
    /\ includeEqualLists \/ ~HasList(Decoded(1))

\* C9 amended: if all documents given to ExtractCommonN are pairwise identical,
\* no key of them holds null, an empty mapping or an empty sequence, and
\* includeEqualListsInCommon is enabled or they hold no sequence, then common
\* deep-equals docs[0] (an empty or null document counting as the empty
\* mapping) and every remainder is the empty mapping.
C9_IdenticalAllCommonAmended ==
    C9_Pre =>
        /\ out.common = normalizeDocRoot(Decoded(1))
        /\ \A i \in 1..Len(docs) : out.rems[i] = EmptyMap

\* Identical documents with a sequence nested under a key of a nested mapping.
C9_Witness ==
    /\ C9_Pre
    /\ Entries(Decoded(1)) >= 2
    /\ HasList(Decoded(1))
    /\ out.common = Decoded(1)

\* Where every document holds the same sequence, every remainder holds it too
\* (rs[i] is the remainder's value at the path, EmptyBytes when it has none).
RECURSIVE KeepsLists(_, _)
KeepsLists(ds, rs) ==
    LET n == Len(ds)
    IN IF \A i \in 1..n : ds[i].t = "list" /\ ds[i] = ds[1]
       THEN \A i \in 1..n : rs[i] = ds[i]
       ELSE IF \A i \in 1..n : ds[i].t = "map"
       THEN \A k \in {x \in KeysOf(ds[1]) : \A i \in 2..n : x \in KeysOf(ds[i])} :
                KeepsLists([i \in 1..n |-> Get(ds[i], k)],
                           [i \in 1..n |-> IF rs[i].t = "map" /\ k \in KeysOf(rs[i])
                                           THEN Get(rs[i], k) ELSE EmptyBytes])
       ELSE TRUE

\* C10: with includeEqualListsInCommon = false, pairwise and N-ary alike, the
\* common result holds no sequence at any path, and a sequence that is
\* identical across all documents at a path is found unchanged at that path
\* in every remainder.
C10_ListsNotPromoted ==
    (~includeEqualLists /\ op \in {"ExtractCommon", "ExtractCommonN"}) =>
        /\ ~HasList(Unmarshal(out.common))
        /\ KeepsLists([i \in 1..Len(docs) |-> Decoded(i)],
                      [i \in 1..Len(docs) |-> Unmarshal(out.rems[i])])

\* ---------------------------------------------- properties: sibling files
\* The common part of the documents the call was given, as pkg/yaml computes it.
CommonOfCall ==
    IF call.kind = "pair"
    THEN ExtractCommon(orig[call.paths[1]], orig[call.paths[2]], includeEqualLists).common
    ELSE ExtractCommonN([i \in 1..Len(call.paths) |-> orig[call.paths[i]]],
                        includeEqualLists).common

\* The call got as far as computing the common part, and that part is empty.
C4_Pre ==
    /\ call.st # "idle"
    /\ call.err \notin {"invalid", "read"}
    /\ SameDoc(CommonOfCall, EmptyMap)

\* C4: when the common part computed for a group of sibling values.yaml files
\* is empty, ExtractCommon / ExtractCommonN returns ErrNoCommon, no values.yaml
\* is created in the parent directory and every input file keeps its content.
C4_NoCommonNoChange ==
    C4_Pre => call.st = "done" /\ call.err = "ErrNoCommon" /\ files = orig

\* Two siblings holding different non-empty documents without a common part,
\* and no values.yaml in the parent directory.
C4_Witness ==
    /\ C4_Pre
    /\ call.st = "done"
    /\ \A i \in 1..Len(call.paths) : orig[call.paths[i]].m # {}
    /\ orig[Join(MidB, ValuesName)] = NoFile

\* C5 as stated: if any write of a group fails, the call returns an error and
\* no file of the group differs from its content before the call.
C5_AllOrNothing ==
    (call.st = "done" /\ call.err = "write") => files = orig

\* The conditions on the input that C7 names.
BadInput(paths) ==
    \/ Len(paths) < 2
    \/ \E i \in 1..Len(paths) : paths[i][Len(paths[i])] # "values.yaml"
    \/ \E i \in 1..Len(paths) : paths[i] \in dirs \/ orig[paths[i]] = NoFile
    \/ \E i, j \in 1..Len(paths) :
          SubSeq(paths[i], 1, Len(paths[i]) - 2) # SubSeq(paths[j], 1, Len(paths[j]) - 2)

Ancestry(d) == [i \in 1..Len(d) |-> SubSeq(d, 1, i)]

\* The values.yaml documents now found from the root down to leaf.
ChainDocs(leaf) ==
    LET Has(d) == files[Join(d, ValuesName)] # NoFile
        ds == SelectSeq(Ancestry(leaf), Has)
    IN [i \in 1..Len(ds) |-> files[Join(ds[i], ValuesName)]]

\* MergeYAML folded over the first k documents of ys, outermost first.
RECURSIVE FoldMerge(_, _)
FoldMerge(ys, k) ==
    IF k = 1 THEN [ok |-> TRUE, y |-> ys[1]]
    ELSE LET prev == FoldMerge(ys, k - 1)
         IN IF prev.ok THEN MergeYAML(prev.y, ys[k]) ELSE prev

OnlyLeavesAtStart == \A d \in NonLeafDirs : orig[Join(d, ValuesName)] = NoFile

\* C6: after ExtractCommonRecursive succeeds on a tree whose values.yaml files
\* were only in leaf directories, for every such leaf, merging the values.yaml
\* files of its ancestor directories, outermost first, and then the leaf's own
\* rewritten file gives back the leaf's original document.
C6_MultiLevelReconstruction ==
    (rec.pc = "done" /\ rec.err = "none" /\ OnlyLeavesAtStart) =>
        \A leaf \in LeafDirs :
            orig[Join(leaf, ValuesName)] # NoFile =>
                LET ys == ChainDocs(leaf)
                    m == FoldMerge(ys, Len(ys))
                IN m.ok /\ SameDoc(m.y, orig[Join(leaf, ValuesName)])

\* A run that created files at both upper levels and left a non-empty
\* remainder in a leaf.
C6_Witness ==
    /\ rec.pc = "done" /\ rec.err = "none" /\ OnlyLeavesAtStart
    /\ files[Join(Root, ValuesName)] # NoFile
    /\ files[Join(MidB, ValuesName)] # NoFile
    /\ files[Join(LeafX, ValuesName)] # NoFile
    /\ files[Join(LeafX, ValuesName)].m # {}
    /\ files[Join(LeafX, ValuesName)] # orig[Join(LeafX, ValuesName)]

\* Some directory without a values.yaml at the start of the pass has one now.
NewParentFileInPass ==
    \E d \in dirs :
        /\ rec.atPassStart[Join(d, ValuesName)] = NoFile
        /\ files[Join(d, ValuesName)] # NoFile

\* The step that ends a pass either ends the run or follows a pass in which a
\* values.yaml was created in a directory that had none.
PassEnds ==
    (rec.pc = "loop" /\ rec.pi = Len(rec.parents) + 1 /\ rec' # rec) =>
        rec'.pc = "done" \/ NewParentFileInPass

\* A bound on the steps the loop has left: the directories that had no
\* values.yaml when the pass began, each worth a whole pass, plus the steps
\* left in this pass.
Variant ==
    Cardinality({d \in dirs : rec.atPassStart[Join(d, ValuesName)] = NoFile})
        * (Len(rec.parents) + 2)
    + (Len(rec.parents) + 1 - rec.pi)

\* Every step of the loop ends the run or lowers the bound, which is never
\* negative.
LoopStep ==
    (rec.pc = "loop" /\ rec' # rec) =>
        rec'.pc = "done" \/ (Variant' < Variant /\ Variant' >= 0)

\* C8: ExtractCommonRecursive terminates: every pass of its loop either
\* creates a parent values.yaml in a directory that had none or is the last
\* pass, so that every step of the loop lowers a bound on the steps left.
C8_Terminates == [][PassEnds /\ LoopStep]_vars

\* A run that ended without error after more than one pass.
C8_Witness == rec.pc = "done" /\ rec.err = "none" /\ rec.pass >= 2

\* ------------------------------------------ properties: sequences and merging
\* The value of v at key k, EmptyBytes when v is no map or has no such key.
At(v, k) == IF v.t = "map" /\ k \in KeysOf(v) THEN Get(v, k) ELSE EmptyBytes

\* Where a and b hold unequal sequences at the same path, ra and rb hold them
\* whole at that path and c holds nothing there: no entry at a key, the empty
\* mapping at the root.
RECURSIVE SplitsLists(_, _, _, _, _, _)
SplitsLists(a, b, c, ra, rb, atRoot) ==
    IF a.t = "list" /\ b.t = "list" /\ a # b
    THEN ra = a /\ rb = b /\ c = (IF atRoot THEN EmptyMap ELSE EmptyBytes)
    ELSE IF a.t = "map" /\ b.t = "map"
    THEN \A k \in KeysOf(a) \cap KeysOf(b) :
            SplitsLists(Get(a, k), Get(b, k), At(c, k), At(ra, k), At(rb, k), FALSE)
    ELSE TRUE

\* C11: sequence atomicity. After ExtractCommon(a, b), for any two unequal
\* sequences at the same key path of a and b, each sequence is found whole and
\* unchanged at that path in its own remainder and the common result has no
\* entry at that path.
C11_SequenceAtomicity ==
    op = "ExtractCommon" =>
        SplitsLists(Decoded(1), Decoded(2), Unmarshal(out.common),
                    Unmarshal(out.rems[1]), Unmarshal(out.rems[2]), TRUE)

\* The decoded base, overlay and result of the merge that ran.
MergeBase == Unmarshal(docs[1])
MergeOverlay == Unmarshal(docs[2])
MergeResult == Unmarshal(out.merged)

\* One of x, y is a mapping, the other a non-null value that is no mapping.
MapVsOther(x, y) ==
    /\ x # Nil /\ y # Nil
    /\ (x.t = "map") # (y.t = "map")

\* C12: in merge(base, overlay), where one side holds a mapping and the other
\* a non-null value that is no mapping at the same key, the merge succeeds and
\* the result at that key is the overlay's value, in both directions.
C12_MapVsNonMapOverlayWins ==
    (op = "MergeYAML" /\ MergeBase.t = "map" /\ MergeOverlay.t = "map") =>
        \A k \in KeysOf(MergeBase) \cap KeysOf(MergeOverlay) :
            MapVsOther(Get(MergeBase, k), Get(MergeOverlay, k)) =>
                /\ out.ok
                /\ k \in KeysOf(MergeResult)
                /\ Get(MergeResult, k) = Get(MergeOverlay, k)

\* C13: in merge(base, overlay), a key the overlay sets to an explicit null is
\* in the result with the value null, whatever the base holds at that key.
C13_OverlayNullKept ==
    (op = "MergeYAML" /\ MergeBase.t = "map" /\ MergeOverlay.t = "map") =>
        \A k \in KeysOf(MergeOverlay) :
            Get(MergeOverlay, k) = Nil =>
                /\ out.ok
                /\ k \in KeysOf(MergeResult)
                /\ Get(MergeResult, k) = Nil

Returned == {out.common} \cup {out.rems[i] : i \in 1..Len(out.rems)}

\* C15: every document returned by ExtractCommon or ExtractCommonN has a root
\* that is not null, and a root that is empty (null, an empty mapping or an
\* empty sequence) is the empty mapping.
C15_RootNormalized ==
    op \in {"ExtractCommon", "ExtractCommonN"} =>
        \A d \in Returned :
            /\ d # EmptyBytes
            /\ Unmarshal(d) # Nil
            /\ isEmpty(Unmarshal(d)) => Unmarshal(d) = EmptyMap

\* ----------------------------------- properties: recursive extraction, results
Succeeded == rec.pc = "done" /\ rec.err = "none"

\* C16: on success ExtractCommonRecursive returns a list that is sorted
\* ascending and without duplicates, holding a path exactly when a group
\* extraction of the run created or overwrote that parent values.yaml.
C16_CreatedList ==
    Succeeded =>
        /\ \A i, j \in 1..Len(rec.created) : i < j => PathLess(rec.created[i], rec.created[j])
        /\ {rec.created[i] : i \in 1..Len(rec.created)} = rec.wroteParents

\* A run that returned two or more paths, one of a parent values.yaml that
\* was there before the run and was overwritten.
C16_Witness ==
    /\ Succeeded
    /\ Len(rec.created) >= 2
    /\ \E i \in 1..Len(rec.created) :
          /\ orig[rec.created[i]] # NoFile
          /\ files[rec.created[i]] # orig[rec.created[i]]

\* The files of the group of the current parent: its values.yaml and those of
\* its child directories.
InCurrentGroup(p) ==
    LET parent == rec.parents[rec.pi]
    IN Base(p) = ValuesName /\ (Dir(p) = parent \/ Dir(Dir(p)) = parent)

\* A step of the loop that called ExtractCommonN.
GroupStep == rec.pc = "loop" /\ rec' # rec /\ rec'.lastErr # "nocall"

GroupStepOutcome ==
    GroupStep =>
        /\ rec'.lastErr = "ErrNoCommon" =>
              /\ rec'.pc = "loop" /\ rec'.pi = rec.pi + 1 /\ rec'.err = "none"
              /\ files' = files
        /\ rec'.lastErr = "none" => rec'.pc = "loop" /\ rec'.err = "none"
        /\ rec'.lastErr \notin {"ErrNoCommon", "none"} =>
              /\ rec'.pc = "done" /\ rec'.err = rec'.lastErr
              /\ \A p \in FilePaths : ~InCurrentGroup(p) => files'[p] = files[p]

\* C17: ExtractCommonRecursive absorbs only ErrNoCommon: a group that yields it
\* is passed over, unchanged, and the run goes on; any other error of a group
\* ends the run at once and is returned, and the files written for earlier
\* groups stay as they were written.
C17_OnlyErrNoCommonAbsorbed == [][GroupStepOutcome]_vars

\* A run ended by a write error after an earlier group was written.
C17_Witness ==
    /\ rec.pc = "done" /\ rec.err = "write"
    /\ \E p \in rec.wroteParents : files[p] # orig[p]

\* At the start the only values.yaml files are those of LeafX (under MidB) and
\* LeafZ (under MidC), and their documents have a common part.
GrandchildrenOnly ==
    /\ \A p \in FilePaths :
          orig[p] # NoFile <=> p \in {Join(LeafX, ValuesName), Join(LeafZ, ValuesName)}
    /\ ~isEmptyYAML(ExtractCommonN(<<orig[Join(LeafX, ValuesName)],
                                     orig[Join(LeafZ, ValuesName)]>>,
                                   includeEqualLists).common)

\* C19: when the only values.yaml files under a directory sit in grandchild
\* directories below different children and share structure,
\* ExtractCommonRecursive writes the common part to the directory's
\* values.yaml, rewrites both files to their remainders, returns exactly that
\* path and creates no values.yaml in the two children.
C19_GrandchildrenAtGrandparent ==
    (rec.pc = "done" /\ GrandchildrenOnly) =>
        LET r == ExtractCommonN(<<orig[Join(LeafX, ValuesName)],
                                  orig[Join(LeafZ, ValuesName)]>>, includeEqualLists)
        IN /\ rec.err = "none"
           /\ SameDoc(files[Join(Root, ValuesName)], r.common)
           /\ files[Join(Root, ValuesName)] # NoFile
           /\ files[Join(LeafX, ValuesName)] = r.rems[1]
           /\ files[Join(LeafZ, ValuesName)] = r.rems[2]
           /\ rec.created = <<Join(Root, ValuesName)>>
           /\ files[Join(MidB, ValuesName)] = NoFile
           /\ files[Join(MidC, ValuesName)] = NoFile

\* The values.yaml files now found in the immediate child directories of d.
ChildFiles(d) ==
    LET cs == childrenOf(dirs, d)
        Has(c) == stat(files, dirs, Join(c, ValuesName)) = "file"
        kept == SelectSeq(cs, Has)
    IN [i \in 1..Len(kept) |-> files[Join(kept[i], ValuesName)]]

\* C20: when ExtractCommonRecursive returns successfully, no directory has two
\* or more immediate child directories holding values.yaml files whose N-ary
\* common part is not empty.
C20_FixedPoint ==
    Succeeded =>
        \A d \in dirs :
            Len(ChildFiles(d)) >= 2 =>
                SameDoc(ExtractCommonN(ChildFiles(d), includeEqualLists).common, EmptyMap)

\* A successful run after which the root and both directories below it hold a
\* values.yaml.
C20_Witness ==
    /\ Succeeded
    /\ OnlyLeavesAtStart
    /\ \A d \in NonLeafDirs : files[Join(d, ValuesName)] # NoFile
    /\ files[Join(MidB, ValuesName)].m # {}

\* ------------------------------------------ properties: concurrent calls
BothReturned == \A p \in DOMAIN procs.ps : procs.ps[p].pc = "done"

\* Merging the parent's values.yaml, when there is one, and then the file of
\* leaf gives back the original document of leaf.
Reconstructs(leaf) ==
    LET ys == ChainDocs(leaf)
        m == FoldMerge(ys, Len(ys))
    IN m.ok /\ SameDoc(m.y, orig[Join(leaf, ValuesName)])

ReconstructsAll == \A leaf \in ConcLeaves : Reconstructs(leaf)

CommonUnder(mid) ==
    LET ps == childrenOf(dirs, mid)
    IN ExtractCommonN([i \in 1..Len(ps) |-> orig[Join(ps[i], ValuesName)]],
                      includeEqualLists).common

\* What ExtractCommonN returns for the commons of b and c.
TopLevel == ExtractCommonN(<<CommonUnder(MidB), CommonUnder(MidC)>>, includeEqualLists)

\* All four leaves hold a file, the leaves of b share something, so do those
\* of c, and the two commons share something.
TwoLevelsShare ==
    /\ \A leaf \in LeafDirs : orig[Join(leaf, ValuesName)] # NoFile
    /\ ~isEmptyYAML(CommonUnder(MidB))
    /\ ~isEmptyYAML(CommonUnder(MidC))
    /\ ~isEmptyYAML(TopLevel.common)

\* C21: in the two-level tree r/b/{x,y}, r/c/{z,w} whose groups share
\* something at both levels, a successful run ends with r/values.yaml holding
\* what the commons of b and c share, b/values.yaml and c/values.yaml holding
\* their remainders against it, and the result list being r/b/values.yaml,
\* r/c/values.yaml and r/values.yaml.
C21_UpwardPropagation ==
    (Succeeded /\ TwoLevelsShare) =>
        /\ files[Join(Root, ValuesName)] = TopLevel.common
        /\ files[Join(MidB, ValuesName)] = TopLevel.rems[1]
        /\ files[Join(MidC, ValuesName)] = TopLevel.rems[2]
        /\ rec.created = <<Join(MidB, ValuesName), Join(MidC, ValuesName),
                           Join(Root, ValuesName)>>

\* Such a run, with something left in the file of b after the second level.
C21_Witness ==
    /\ Succeeded /\ TwoLevelsShare /\ OnlyLeavesAtStart
    /\ ~isEmptyYAML(files[Join(MidB, ValuesName)])

\* ------------------------------------------- properties: N-ary intersection
\* The keys of a value; a value that is not a mapping has none.
KeysAt(v) == IF v.t = "map" THEN KeysOf(v) ELSE {}

\* At this level and every level below: a key that some of vals lacks is not
\* in c and is whole in the remainder of each of vals that has it.
RECURSIVE KeyIntersection(_, _, _)
KeyIntersection(vals, c, rs) ==
    \A k \in UNION {KeysAt(vals[i]) : i \in 1..Len(vals)} :
        IF \E i \in 1..Len(vals) : k \notin KeysAt(vals[i])
        THEN /\ k \notin KeysAt(c)
             /\ \A i \in 1..Len(vals) :
                   k \in KeysAt(vals[i]) => At(rs[i], k) = Get(vals[i], k)
        ELSE KeyIntersection([i \in 1..Len(vals) |-> Get(vals[i], k)],
                             At(c, k),
                             [i \in 1..Len(vals) |-> At(rs[i], k)])

\* C22: after ExtractCommonN, at every mapping level, a key absent from at
\* least one document is not in the common result and stays, with its whole
\* value, in the remainder of each document that has it.
C22_KeyIntersection ==
    op = "ExtractCommonN" =>
        KeyIntersection([i \in 1..Len(docs) |-> Decoded(i)],
                        Unmarshal(out.common),
                        [i \in 1..Len(docs) |-> Unmarshal(out.rems[i])])

\* Three documents: two hold "a" with the same value, the third lacks it.
C22_Witness ==
    /\ op = "ExtractCommonN" /\ Len(docs) = 3
    /\ "a" \in KeysAt(Decoded(1)) /\ "a" \in KeysAt(Decoded(2))
    /\ Get(Decoded(1), "a") = Get(Decoded(2), "a")
    /\ "a" \notin KeysAt(Decoded(3))
    /\ At(Unmarshal(out.rems[1]), "a") = Get(Decoded(1), "a")

\* ------------------------------------------ properties: mismatched variants
\* At every key path of two mappings: where the sides hold different variants
\* (or only one side holds the key, when blanks is FALSE only if neither value
\* is null, an empty mapping or an empty sequence), c has nothing at the path
\* and each side's value is whole in its own remainder.
RECURSIVE MismatchKept(_, _, _, _, _, _)
MismatchKept(a, b, c, ra, rb, blanks) ==
    \A k \in KeysOf(a) \cup KeysOf(b) :
        LET av == At(a, k)
            bv == At(b, k)
        IN IF av.t = "map" /\ bv.t = "map"
           THEN MismatchKept(av, bv, At(c, k), At(ra, k), At(rb, k), blanks)
           ELSE (av.t # bv.t /\ (blanks \/ (~isEmpty(av) /\ ~isEmpty(bv)))) =>
                    /\ At(c, k) = EmptyBytes
                    /\ At(ra, k) = av
                    /\ At(rb, k) = bv

\* C23: after ExtractCommon of two mappings, at every key path where the two
\* sides hold different variants (mapping, sequence, scalar, null, absent),
\* nothing enters common and each side's value is whole at that path in its
\* own remainder.
C23_MismatchedVariants ==
    (op = "ExtractCommon" /\ Decoded(1).t = "map" /\ Decoded(2).t = "map") =>
        MismatchKept(Decoded(1), Decoded(2), Unmarshal(out.common),
                     Unmarshal(out.rems[1]), Unmarshal(out.rems[2]), TRUE)

\* The same for the paths where neither side is null or empty: this holds.
C23_MismatchedVariantsNotBlank ==
    (op = "ExtractCommon" /\ Decoded(1).t = "map" /\ Decoded(2).t = "map") =>
        MismatchKept(Decoded(1), Decoded(2), Unmarshal(out.common),
                     Unmarshal(out.rems[1]), Unmarshal(out.rems[2]), FALSE)

\* ----------------------------------------------------- properties: pruning
Extracted == op \in {"ExtractCommon", "ExtractCommonN"}

EmptyCollection(v) == (v.t = "map" /\ v.m = {}) \/ (v.t = "list" /\ v.l = <<>>)

\* Some nested key of v holds an empty mapping or an empty sequence.
RECURSIVE NestedEmpty(_)
NestedEmpty(v) ==
    v.t = "map" /\ \E e \in v.m : EmptyCollection(e.v) \/ NestedEmpty(e.v)

\* Every empty mapping or sequence at a nested key of r is at the same key
\* path of d.
RECURSIVE CopiedEmpties(_, _)
CopiedEmpties(r, d) ==
    r.t = "map" =>
        \A e \in r.m :
            IF EmptyCollection(e.v) THEN At(d, e.k) = e.v
            ELSE CopiedEmpties(e.v, At(d, e.k))

\* C24 as stated: no document returned by ExtractCommon or ExtractCommonN
\* holds an empty mapping or an empty sequence as the value of a nested key.
C24_PruningInvariant ==
    Extracted => \A y \in Returned : ~NestedEmpty(Unmarshal(y))

\* C24, what holds instead: the common document holds no empty mapping or
\* sequence at a nested key, and a remainder holds one only where its input
\* document holds it at the same key path (a key the common part lacks is
\* copied as it is); extraction itself never stores an empty placeholder.
C24_PruningInvariantAmended ==
    Extracted =>
        /\ ~NestedEmpty(Unmarshal(out.common))
        /\ \A i \in 1..Len(out.rems) : CopiedEmpties(Unmarshal(out.rems[i]), Decoded(i))

\* A remainder keeps an empty mapping of its input beside a key whose whole
\* value went to the common document.
C24_Witness ==
    /\ Extracted
    /\ NestedEmpty(Unmarshal(out.rems[1]))
    /\ ~isEmptyYAML(out.common)
    /\ \E k \in KeysAt(Decoded(1)) : k \notin KeysAt(Unmarshal(out.rems[1]))

\* ------------------------------------- properties: common against remainder
\* c and r, both present at a path, do not conflict there: both are mappings
\* and do not conflict at any key both hold.
RECURSIVE Disjoint(_, _)
Disjoint(c, r) ==
    /\ c.t = "map" /\ r.t = "map"
    /\ \A k \in KeysOf(c) \cap KeysOf(r) : Disjoint(Get(c, k), Get(r, k))

\* merge(remainder i, common) and merge(common, remainder i) agree.
MergeCommutes(i) == MergeYAML(out.rems[i], out.common) = MergeYAML(out.common, out.rems[i])

\* C25: in the outputs of ExtractCommon and ExtractCommonN no path holds a
\* scalar or sequence in both common and a remainder, nor a mapping in one and
\* a non-mapping in the other, and merging a remainder with common gives the
\* same in either order.
C25_NoConflict ==
    Extracted =>
        \A i \in 1..Len(out.rems) :
            /\ Disjoint(Unmarshal(out.common), Unmarshal(out.rems[i]))
            /\ MergeCommutes(i)

\* The same for documents that are mappings or empty: this holds.
C25_NoConflictMappings ==
    (Extracted /\ \A i \in 1..Len(docs) : Decoded(i).t \in {"map", "nil"}) =>
        \A i \in 1..Len(out.rems) :
            /\ Disjoint(Unmarshal(out.common), Unmarshal(out.rems[i]))
            /\ MergeCommutes(i)

\* ------------------------------------ properties: a parent file found before
\* Every key of o is in v with the same value (mappings compared key by key).
RECURSIVE Contains(_, _)
Contains(v, o) ==
    IF o.t = "map"
    THEN v.t = "map" /\ \A e \in o.m : e.k \in KeysOf(v) /\ Contains(Get(v, e.k), e.v)
    ELSE v = o

\* The documents one can get from the tree now: each values.yaml, and each
\* merge of the values.yaml files from the root down to a directory.
Obtainable ==
    {files[p] : p \in {q \in FilePaths : files[q] # NoFile}}
    \cup {FoldMerge(ChainDocs(d), Len(ChainDocs(d))).y :
            d \in {x \in dirs : ChainDocs(x) # <<>>
                                /\ FoldMerge(ChainDocs(x), Len(ChainDocs(x))).ok}}

\* C26: after a successful run, for a directory that held a values.yaml
\* before the run and whose children were extracted into it, every key and
\* value of that original file is still in the file or in a document that
\* merging the files of the tree gives.
C26_ParentContentKept ==
    Succeeded =>
        \A d \in NonLeafDirs :
            (orig[Join(d, ValuesName)] # NoFile
                /\ Join(d, ValuesName) \in rec.wroteParents) =>
                \E y \in Obtainable : Contains(Unmarshal(y), Unmarshal(orig[Join(d, ValuesName)]))

\* ------------------------------------------ properties: the write sequence
\* The parent's values.yaml as it is now, merged with the file at p as it is
\* now (the child as overlay), is the original document of p.
RebuiltNow(p) ==
    LET parent == Join(Dir(Dir(p)), ValuesName)
        m == IF files[parent] = NoFile THEN [ok |-> TRUE, y |-> files[p]]
             ELSE MergeYAML(files[parent], files[p])
    IN m.ok /\ SameDoc(m.y, orig[p])

\* C27: from the first write of ExtractCommonN on (the common file in the
\* parent directory), after every write of its sequence, and also when a
\* later write fails, the parent's current values.yaml merged with each
\* child's current values.yaml gives back that child's original document.
C27_CrashConsistent ==
    (call.kind = "N" /\ call.err \in {"none", "write"} /\ call.st # "idle") =>
        \/ call.idx = 0 /\ files = orig
        \/ call.idx >= 1 /\ \A i \in 1..Len(call.paths) : RebuiltNow(call.paths[i])

\* Between the rewrite of the first child and that of the second: the first
\* holds its remainder, which differs from its original, the second is as it
\* was, and the common file is in place.
C27_Witness ==
    /\ call.kind = "N" /\ call.st = "writing" /\ call.idx = 2
    /\ call.paths[1] # call.paths[2]
    /\ files[call.paths[1]] # orig[call.paths[1]]
    /\ files[call.paths[2]] = orig[call.paths[2]]
    /\ ~isEmptyYAML(files[call.paths[2]])
    /\ ~isEmptyYAML(files[call.paths[1]])

\* ------------------------------------------------- properties: a second run
\* C28: a second run of ExtractCommonRecursive on the tree a successful run
\* left, with the same options, changes no file at any step, and when it
\* returns without error its list of created files is empty.
C28_Idempotent ==
    rec.run = 2 =>
        /\ files = rec.before
        /\ (rec.pc = "done" /\ rec.err = "none") => rec.created = <<>>

\* A second run that returned, on a tree where the first run had written the
\* values.yaml of the root and of both directories below it.
C28_Witness ==
    /\ rec.run = 2 /\ rec.pc = "done" /\ rec.err = "none"
    /\ \A d \in NonLeafDirs :
          files[Join(d, ValuesName)] # NoFile /\ orig[Join(d, ValuesName)] = NoFile
    /\ files # orig

\* ------------------------------------------- properties: pairwise and N-ary
\* What ExtractCommonN returns for the two documents.
NaryOfPair == ExtractCommonN(docs, includeEqualLists)

\* C29: for two documents ExtractCommonN returns the same common document and
\* the same two remainders as ExtractCommon, with either option setting.
C29_NaryAgreesWithPairwise ==
    op = "ExtractCommon" =>
        /\ out.common = NaryOfPair.common
        /\ out.rems = NaryOfPair.rems

\* The same for documents that hold no null, empty mapping or empty sequence
\* at any key: this holds.
C29_NaryAgreesWithPairwiseNotBlank ==
    (op = "ExtractCommon" /\ ~HasBlank(Decoded(1)) /\ ~HasBlank(Decoded(2))) =>
        /\ out.common = NaryOfPair.common
        /\ out.rems = NaryOfPair.rems

\* ------------------------------------------- properties: soundness of common
\* Every key path of c that ends in a scalar or a sequence is in each of vals
\* with an equal value.
RECURSIVE Sound(_, _)
Sound(c, vals) ==
    IF c.t = "map"
    THEN \A e \in c.m :
            /\ \A i \in 1..Len(vals) : e.k \in KeysAt(vals[i])
            /\ Sound(e.v, [i \in 1..Len(vals) |-> At(vals[i], e.k)])
    ELSE c.t \in {"scalar", "list"} /\ \A i \in 1..Len(vals) : vals[i] = c

\* C30: every key path that ends in a scalar or a sequence in the common
\* document of ExtractCommon or ExtractCommonN is in every input document with
\* an equal value; the common document holds nothing else.
C30_CommonSound ==
    Extracted => Sound(Unmarshal(out.common), [i \in 1..Len(docs) |-> Decoded(i)])

\* A common document that holds a key, from documents that differ at another.
C30_Witness ==
    /\ Extracted
    /\ Unmarshal(out.common).t = "map" /\ Unmarshal(out.common).m # {}
    /\ Decoded(1) # Decoded(2)
    /\ ~isEmptyYAML(out.rems[2])

====
